---- MODULE Spec2Model ----
(***************************************************************************)
(* Quant-Lab: the portfolio simulation page (src/pages/MonteCarlo.py).     *)
(*                                                                         *)
(* One run of the page script after the run button is pressed is modelled  *)
(* as a sequence of steps (pc): data collection and alignment, portfolio   *)
(* valuation, return extraction, simulation.  Spec is the page run;        *)
(* SpecSim exercises run_monte_carlo alone on bounded arguments.           *)
(*                                                                         *)
(* Numbers.  A float is the pair <<n, d>>: d > 0 is the rational n/d in    *)
(* lowest terms, <<0, 0>> is NaN, <<1, 0>> is +inf, <<-1, 0>> is -inf.     *)
(* Arithmetic follows IEEE-754 on the special values (x/0 = inf, 0/0 =     *)
(* NaN, 0*inf = NaN, NaN absorbing); finite results are exact, rounding    *)
(* is not modelled.  A logarithm is the record [ln |-> x], read "ln x":    *)
(* [ln |-> <<0,1>>] is -inf, [ln |-> <<1,0>>] is +inf, [ln |-> NaN] NaN.   *)
(***************************************************************************)
EXTENDS Integers, Sequences, FiniteSets, TLC

\* ------------------------------------------------------------------ bounds
\* Calendar days of the requested period.
MaxDates == 3
\* Largest forecast horizon and number of paths given to run_monte_carlo.
MaxDays == 2
MaxSims == 2
\* Largest return pool given to run_monte_carlo on its own (SpecSim).
MaxPool == 2
\* Most simulated paths summarised on their own (SpecRisk).
MaxPaths == 5
\* Most subscriber rows below the header of the sheet.
MaxRows == 2
\* Most reports a search returns.
MaxReports == 2

\* ------------------------------------------------------- program constants
\* st.number_input(..., step=1000000): the investment the user steps to.
InvestmentStep == 1000000
\* The fixed rate substituted when no FX row is found.
FallbackRate == 1400
\* main.py line 153: a subscription ends timedelta(days=365) after it starts.
SubscriptionDays == 365

\* ------------------------------------------------------------- arithmetic
NaN == <<0, 0>>
PosInf == <<1, 0>>
Zero == <<0, 1>>
One == <<1, 1>>

Abs(x) == IF x < 0 THEN -x ELSE x
Sgn(x) == IF x < 0 THEN -1 ELSE IF x > 0 THEN 1 ELSE 0

RECURSIVE GCD(_, _)
GCD(a, b) == IF b = 0 THEN a ELSE GCD(b, a % b)

\* The float n/d (d >= 0), in lowest terms.
Norm(n, d) ==
    IF d = 0 THEN <<Sgn(n), 0>>
    ELSE LET g == GCD(Abs(n), d) IN <<n \div g, d \div g>>

Num(k) == <<k, 1>>
IsNaN(a) == a = NaN
IsFinite(a) == a[2] > 0
IsPositive(a) == a[1] > 0 /\ a[2] > 0

\* a * b
Mul(a, b) ==
    IF a[2] = 0 \/ b[2] = 0 THEN <<Sgn(a[1]) * Sgn(b[1]), 0>>
    ELSE LET g1 == GCD(Abs(a[1]), b[2])
             g2 == GCD(Abs(b[1]), a[2])
         IN  Norm((a[1] \div g1) * (b[1] \div g2), (a[2] \div g2) * (b[2] \div g1))

\* 1 / a  (1/0 = +inf, 1/inf = 0)
Inv(a) == IF a[1] < 0 THEN <<-a[2], -a[1]>> ELSE <<a[2], a[1]>>

\* a / b
Div(a, b) == Mul(a, Inv(b))

\* a + b
Add(a, b) ==
    IF IsNaN(a) \/ IsNaN(b) THEN NaN
    ELSE IF a[2] = 0 /\ b[2] = 0 THEN (IF a[1] = b[1] THEN a ELSE NaN)
    ELSE IF a[2] = 0 THEN a
    ELSE IF b[2] = 0 THEN b
    ELSE LET g == GCD(a[2], b[2])
         IN  Norm(a[1] * (b[2] \div g) + b[1] * (a[2] \div g), (a[2] \div g) * b[2])

\* np.log: NaN for a negative or missing argument, -inf at 0, +inf at +inf.
Log(a) == [ln |-> IF a[1] < 0 THEN NaN ELSE a]
\* np.exp
Exp(l) == l.ln
\* l + m on logarithms: ln x + ln y = ln (x*y); -inf + inf = NaN as 0*inf.
LogAdd(l, m) == [ln |-> Mul(l.ln, m.ln)]
LogIsNaN(l) == IsNaN(l.ln)
LogIsFinite(l) == IsPositive(l.ln)

SetMax(S) == CHOOSE x \in S : \A y \in S : y <= x
SetMin(S) == CHOOSE x \in S : \A y \in S : x <= y

\* The elements of a finite set of integers in increasing order.
RECURSIVE SortedSeq(_)
SortedSeq(S) == IF S = {} THEN <<>> ELSE <<SetMin(S)>> \o SortedSeq(S \ {SetMin(S)})

\* ------------------------------------------------------------------ state
VARIABLES
    pc,             \* position of the page run
    tickers,        \* the parsed ticker list (line 171)
    investment,     \* the investment amount (line 173)
    df_stock,       \* what get_stock_data returns: date -> (ticker -> price)
    df_exchange,    \* what get_exchange_rate_from_db returns: date -> rate
    fx_warning,     \* the fixed-rate warning of line 133 was shown
    market_df,      \* the merged frame: date -> (column -> value)
    daily_returns,  \* the log-return series after dropna: date -> logarithm
    forecast_days,  \* the sliders (lines 181-182), run_monte_carlo's days
    simulations,    \*   and simulations
    hist_returns,   \* run_monte_carlo's other arguments ...
    start_price,
    random_returns, \* ... its sampled returns: step -> (path -> logarithm)
    price_paths,    \* ... and its result: row 0..days -> (path -> value)
    first_paths,    \* the result of an earlier call with the same arguments
    final_values,   \* sim_paths[-1, :] (line 264)
    mean_val,       \* lines 265-267
    var_95,
    risk_amount,
    risk_metric,    \* the value shown on the VaR card (line 278)
    cache,          \* st.cache_data: what the two fetch functions returned
    provider,       \* what the price provider and the rate table hold now
    sheet,          \* the rows of the "QuantLab Subscribers" sheet, header first
    today,          \* the date (KST), as a day number
    calls,          \* the form submissions being served: process -> its locals
    report_job,     \* a run of ReportGenerator.py: its position and variables
    daily_job       \* a run of daily_job.py: its position, variables and tables

vars == <<pc, tickers, investment, df_stock, df_exchange, fx_warning, market_df,
          daily_returns, forecast_days, simulations, hist_returns, start_price,
          random_returns, price_paths, first_paths, final_values, mean_val,
          var_95, risk_amount, risk_metric, cache, provider, sheet, today, calls,
          report_job, daily_job>>

\* The risk statistics and their card.
summary == <<final_values, mean_val, var_95, risk_amount, risk_metric>>

\* The state outside one execution of the page script.
session == <<cache, provider>>
\* The Monte Carlo page and what it keeps.
page == <<pc, tickers, investment, df_stock, df_exchange, fx_warning, market_df,
          daily_returns, forecast_days, simulations, hist_returns, start_price,
          random_returns, price_paths, first_paths, summary, session>>
\* The subscriber sheet and the calls of main.py working on it.
subscribers == <<sheet, today, calls>>
\* The two scheduled jobs.
jobs == <<report_job, daily_job>>
\* Everything the Monte Carlo page does not touch.
backoffice == <<subscribers, jobs>>
\* No job is running.
JobsIdle ==
    /\ report_job = <<>>
    /\ daily_job = <<>>
SessionIdle ==
    /\ cache = <<>>
    /\ provider = <<>>
    /\ sheet = <<>>
    /\ today = 0
    /\ calls = <<>>
    /\ JobsIdle


Calendar == 1 .. MaxDates

\* Adjusted close prices a provider can return for one ticker on one date.
Prices == {NaN, Zero, One, Num(2)}
\* USD/KRW rates of the exchange_rates table.
Rates == {One, Num(2)}

\* The tickers of a ticker list.
TickerSet(ts) == {ts[i] : i \in 1 .. Len(ts)}

\* Forecast horizon and path count of the sliders, scaled down.
PageDays == {1}
PageSims == {2}

\* All partial maps from the calendar into V.
PartialMaps(V) == UNION {[idx -> V] : idx \in SUBSET Calendar}

None == <<>>

\* ------------------------------------------------------ data collection
Columns(df) == IF DOMAIN df = {} THEN {} ELSE DOMAIN df[SetMin(DOMAIN df)]
ILocFirst(df) == df[SetMin(DOMAIN df)]
ILocLast(df) == df[SetMax(DOMAIN df)]
Column(df, c) == [d \in DOMAIN df |-> df[d][c]]

\* Lines 132-135: with no FX row at all, a frame of the fixed rate on the
\* stock index takes the place of the FX data.
ExchangeOrFallback(stock, exchange) ==
    IF DOMAIN exchange = {} THEN [d \in DOMAIN stock |-> Num(FallbackRate)]
    ELSE exchange

\* LeftJoin as an outer join: a row for every date of either frame.
LeftJoin_Outer(stock, exchange) ==
    [d \in DOMAIN stock \cup DOMAIN exchange |->
        [c \in Columns(stock) \cup {"USD_KRW"} |->
            IF c = "USD_KRW"
            THEN (IF d \in DOMAIN exchange THEN exchange[d] ELSE NaN)
            ELSE (IF d \in DOMAIN stock THEN stock[d][c] ELSE NaN)]]

\* Line 139: df_stock.join(df_exchange, how='left').
LeftJoin(stock, exchange) ==
    [d \in DOMAIN stock |->
        [c \in Columns(stock) \cup {"USD_KRW"} |->
            IF c = "USD_KRW"
            THEN (IF d \in DOMAIN exchange THEN exchange[d] ELSE NaN)
            ELSE stock[d][c]]]

\* Series.ffill(): a missing value takes the last value present before it.
FFill(col) ==
    [d \in DOMAIN col |->
        LET before == {e \in DOMAIN col : e <= d /\ ~IsNaN(col[e])}
        IN  IF before = {} THEN NaN ELSE col[SetMax(before)]]

\* Series.bfill(): a missing value takes the first value present after it.
BFill(col) ==
    [d \in DOMAIN col |->
        LET after == {e \in DOMAIN col : e >= d /\ ~IsNaN(col[e])}
        IN  IF after = {} THEN NaN ELSE col[SetMin(after)]]

\* get_merged_market_data past the empty-stock return (lines 128-144).
get_merged_market_data(stock, exchange) ==
    LET merged == LeftJoin(stock, ExchangeOrFallback(stock, exchange))
        filled == BFill(FFill(Column(merged, "USD_KRW")))
    IN  [d \in DOMAIN merged |-> [merged[d] EXCEPT !["USD_KRW"] = filled[d]]]

\* ----------------------------------------------------------- valuation
\* Weight without the division by the number of tickers.
Weight_Whole(inv, ts) == Num(inv)

\* Line 199.
Weight(inv, ts) == Div(Num(inv), Num(Len(ts)))

\* Contribution with a rolling reference: the returns are taken relative to
\* the previous row instead of the first.
Contribution_Rolling(df, t, d, weight) ==
    LET before == {e \in DOMAIN df : e < d}
        ref == IF before = {} THEN d ELSE SetMax(before)
    IN  Mul(Mul(Div(df[d][t], df[ref][t]), Div(df[d]["USD_KRW"], df[ref]["USD_KRW"])),
            weight)

\* Contribution with a missing price counted as zero.
Contribution_FillZero(df, t, d, weight) ==
    LET price == IF IsNaN(df[d][t]) THEN Zero ELSE df[d][t]
    IN  Mul(Mul(Div(price, ILocFirst(df)[t]),
                Div(df[d]["USD_KRW"], ILocFirst(df)["USD_KRW"])),
            weight)

\* Lines 209-211 for one ticker on one date: stock_return * exchange_return
\* * weight, both returns relative to the first row.
Contribution(df, t, d, weight) ==
    LET base_price == ILocFirst(df)[t]
        base_exchange == ILocFirst(df)["USD_KRW"]
        stock_return == Div(df[d][t], base_price)
        exchange_return == Div(df[d]["USD_KRW"], base_exchange)
    IN  Mul(Mul(stock_return, exchange_return), weight)

\* Lines 198, 205-211: Portfolio_KRW starts at 0 and accumulates the tickers
\* in list order; the value on date d after the first n tickers.  Every
\* requested ticker is a column of the frame (line 202 selects them all), so
\* the test of line 206 passes for each.
RECURSIVE Accumulate(_, _, _, _, _)
Accumulate(df, ts, d, weight, n) ==
    IF n = 0 THEN Zero
    ELSE Add(Accumulate(df, ts, d, weight, n - 1), Contribution(df, ts[n], d, weight))

\* Lines 198-211: the frame with its Portfolio_KRW column.
WithPortfolio(df, ts, inv) ==
    [d \in DOMAIN df |->
        [c \in DOMAIN df[d] \cup {"Portfolio_KRW"} |->
            IF c = "Portfolio_KRW"
            THEN Accumulate(df, ts, d, Weight(inv, ts), Len(ts))
            ELSE df[d][c]]]

\* ---------------------------------------------------- return extraction
\* Shift1 without the shift: every row is compared with itself.
Shift1_NoShift(col) == col

\* Series.shift(1): the value of the previous row, missing on the first.
Shift1(col) ==
    [d \in DOMAIN col |->
        LET before == {e \in DOMAIN col : e < d}
        IN  IF before = {} THEN NaN ELSE col[SetMax(before)]]

\* Line 255 before dropna: np.log(V / V.shift(1)).
LogReturns(col) == [d \in DOMAIN col |-> Log(Div(col[d], Shift1(col)[d]))]

\* Series.dropna(): the rows whose value is NaN are removed (an infinite
\* value is not a missing one).
DropNa(ser) == [d \in {e \in DOMAIN ser : ~LogIsNaN(ser[e])} |-> ser[d]]

\* Series.values: the values in index order.
Values(ser) == LET idx == SortedSeq(DOMAIN ser) IN [i \in 1 .. Len(idx) |-> ser[idx[i]]]

\* ------------------------------------------------------ run_monte_carlo
\* RandomChoice with replace=False: no pool entry is drawn twice.
RandomChoice_NoReplace(a, n, m) ==
    {[k \in 1 .. n |-> [j \in 1 .. m |-> a[idx[k][j]]]] :
        idx \in {f \in [1 .. n -> [1 .. m -> 1 .. Len(a)]] :
                    \A k1, k2 \in 1 .. n : \A j1, j2 \in 1 .. m :
                        f[k1][j1] = f[k2][j2] => (k1 = k2 /\ j1 = j2)}}

\* Line 149: np.random.choice(hist_returns, size=(days, simulations),
\* replace=True); every matrix the generator can return.
RandomChoice(a, n, m) ==
    {[k \in 1 .. n |-> [j \in 1 .. m |-> a[idx[k][j]]]] :
        idx \in [1 .. n -> [1 .. m -> 1 .. Len(a)]]}

\* CumSum along axis=1: the sum runs across the paths of one step.
RECURSIVE CumSum_Axis1(_, _, _)
CumSum_Axis1(rr, k, j) ==
    IF j = 1 THEN rr[k][1] ELSE LogAdd(CumSum_Axis1(rr, k, j - 1), rr[k][j])

\* Line 152, np.cumsum(random_returns, axis=0): entry (k, j).
RECURSIVE CumSum(_, _, _)
CumSum(rr, k, j) == IF k = 1 THEN rr[1][j] ELSE LogAdd(CumSum(rr, k - 1, j), rr[k][j])

\* SeedRow left as np.zeros made it.
SeedRow_Zeros(start, m) == [j \in 1 .. m |-> Zero]

\* Line 156: row 0 of the path matrix.
SeedRow(start, m) == [j \in 1 .. m |-> start]

\* Lines 152-158: the price paths built from the sampled returns.
PricePaths(rr, start, n, m) ==
    [r \in 0 .. n |->
        IF r = 0 THEN SeedRow(start, m)
        ELSE [j \in 1 .. m |-> Mul(start, Exp(CumSum(rr, r, j)))]]

\* ------------------------------------------------------ risk statistics
Neg(a) == <<-a[1], a[2]>>
Sub(a, b) == Add(a, Neg(b))
\* a < b and a <= b; both false when either is NaN.
Less(a, b) == ~IsNaN(a) /\ ~IsNaN(b) /\ a[1] * b[2] < b[1] * a[2]
Leq(a, b) == ~IsNaN(a) /\ ~IsNaN(b) /\ a[1] * b[2] <= b[1] * a[2]

\* int(x) of a finite float: truncation toward zero.
Trunc(a) == IF a[1] < 0 THEN -((-a[1]) \div a[2]) ELSE a[1] \div a[2]

\* SortValues that leaves the sample in path order.
SortValues_Unsorted(a) == a

\* The sample in ascending order (np.percentile sorts, or partitions, its
\* input); no NaN among the values.
RECURSIVE SortValues(_)
SortValues(a) ==
    IF Len(a) = 0 THEN <<>>
    ELSE LET i == CHOOSE k \in 1 .. Len(a) : \A l \in 1 .. Len(a) : Leq(a[k], a[l])
         IN  <<a[i]>> \o SortValues([k \in 1 .. Len(a) - 1 |-> IF k < i THEN a[k] ELSE a[k + 1]])

\* numpy's interpolation between two neighbours: a + (b-a)*t, computed as
\* b - (b-a)*(1-t) from t = 1/2 on.
Lerp(a, b, t) ==
    IF Leq(<<1, 2>>, t) THEN Sub(b, Mul(Sub(b, a), Sub(One, t)))
    ELSE Add(a, Mul(Sub(b, a), t))

\* np.percentile(a, q), method 'linear': with h = q/100 * (n-1), the value
\* interpolated between s[floor h] and s[floor h + 1] of the sorted sample
\* s at h - floor h; NaN when the sample holds a NaN.
Percentile(a, q) ==
    IF \E i \in 1 .. Len(a) : IsNaN(a[i]) THEN NaN
    ELSE LET s == SortValues(a)
             n == Len(a)
             lo == (q * (n - 1)) \div 100
             hi == IF lo + 1 > n - 1 THEN n - 1 ELSE lo + 1
             gamma == Norm((q * (n - 1)) % 100, 100)
         IN  Lerp(s[lo + 1], s[hi + 1], gamma)

\* The sum of the first n values of a sequence.
RECURSIVE SumValues(_, _)
SumValues(a, n) == IF n = 0 THEN Zero ELSE Add(SumValues(a, n - 1), a[n])

\* np.mean(a)
Mean(a) == Div(SumValues(a, Len(a)), Num(Len(a)))

\* FinalRow taken from the top of the matrix.
FinalRow_First(paths) == paths[0]

\* Line 264: sim_paths[-1, :].
FinalRow(paths) == paths[SetMax(DOMAIN paths)]

\* Line 266: the percentile asked of np.percentile.
VarPercent == 5

\* RiskAmount with a floor at zero.
RiskAmount_Clamped(current_value, v95) ==
    IF Less(Sub(current_value, v95), Zero) THEN Zero ELSE Sub(current_value, v95)

\* Line 267.
RiskAmount(current_value, v95) == Sub(current_value, v95)

\* Line 278, f"-{int(risk_amount):,}": a fixed minus sign followed by the
\* truncated amount printed with its own sign.
RiskMetric(risk) == [prefix |-> "-", number |-> Trunc(risk)]

\* Lines 273-278: what the cards pass to int(); int() raises on NaN and inf.
CardNumbers(mean, current_value, risk) ==
    {mean, Sub(Mul(Div(mean, current_value), Num(100)), Num(100)), risk}

\* ------------------------------------------------------------- page run
Unset == <<>>

NoSummary ==
    /\ final_values = Unset
    /\ mean_val = NaN
    /\ var_95 = NaN
    /\ risk_amount = NaN
    /\ risk_metric = Unset

\* One ticker; any FX rows, also on days without a stock row, or none.
InitSingle ==
    /\ tickers = <<"AAPL">>
    /\ df_stock \in PartialMaps([{"AAPL"} -> Prices])
    /\ df_exchange \in PartialMaps(Rates)

\* Two tickers; the exchange_rates table holds the same rate on every day.
InitPair ==
    /\ tickers = <<"AAPL", "MSFT">>
    /\ df_stock \in PartialMaps([{"AAPL", "MSFT"} -> Prices])
    /\ df_exchange = [d \in Calendar |-> One]

\* The ticker box left empty, or holding only commas and blanks: line 171
\* yields an empty list, for which the provider returns no row.
InitEmpty ==
    /\ tickers = <<>>
    /\ df_stock = None
    /\ df_exchange \in PartialMaps(Rates)

Init ==
    /\ pc = "run"
    /\ investment = InvestmentStep
    /\ InitSingle \/ InitPair \/ InitEmpty
    /\ forecast_days \in PageDays
    /\ simulations \in PageSims
    /\ fx_warning = FALSE
    /\ market_df = None
    /\ daily_returns = Unset
    /\ hist_returns = Unset
    /\ start_price = NaN
    /\ random_returns = Unset
    /\ price_paths = Unset
    /\ first_paths = Unset
    /\ NoSummary
    /\ SessionIdle

\* RunAnalysis without the empty-frame return of lines 124-126.
RunAnalysis_NoEmptyCheck ==
    /\ pc = "run"
    /\ pc' = "merged"
    /\ fx_warning' = (DOMAIN df_exchange = {})
    /\ market_df' = get_merged_market_data(df_stock, df_exchange)
    /\ UNCHANGED <<session, backoffice>>
    /\ UNCHANGED <<tickers, investment, df_stock, df_exchange, daily_returns,
                   hist_returns, start_price, forecast_days, simulations,
                   random_returns, price_paths,
                   first_paths, summary>>

\* Lines 187-194: the run button; period holds one date or two.
RunAnalysis ==
    /\ pc = "run"
    /\ \E period_len \in {1, 2} :
          IF period_len # 2
          THEN /\ pc' = "period_error"
               /\ UNCHANGED <<market_df, fx_warning>>
          ELSE IF DOMAIN df_stock = {}
          THEN /\ pc' = "no_stock_data"
               /\ UNCHANGED <<market_df, fx_warning>>
          ELSE /\ pc' = "merged"
               /\ fx_warning' = (DOMAIN df_exchange = {})
               /\ market_df' = get_merged_market_data(df_stock, df_exchange)
    /\ UNCHANGED <<session, backoffice>>
    /\ UNCHANGED <<tickers, investment, df_stock, df_exchange, daily_returns,
                   hist_returns, start_price, forecast_days, simulations,
                   random_returns, price_paths,
                   first_paths, summary>>

\* Lines 196-211.
Valuate ==
    /\ pc = "merged"
    /\ market_df' = WithPortfolio(market_df, tickers, investment)
    /\ pc' = "valued"
    /\ UNCHANGED <<session, backoffice>>
    /\ UNCHANGED <<tickers, investment, df_stock, df_exchange, fx_warning,
                   daily_returns, hist_returns, start_price, forecast_days,
                   simulations, random_returns, price_paths,
                   first_paths, summary>>

\* Line 255.
ExtractReturns ==
    /\ pc = "valued"
    /\ daily_returns' = DropNa(LogReturns(Column(market_df, "Portfolio_KRW")))
    /\ pc' = "returns"
    /\ UNCHANGED <<session, backoffice>>
    /\ UNCHANGED <<tickers, investment, df_stock, df_exchange, fx_warning,
                   market_df, hist_returns, start_price, forecast_days,
                   simulations, random_returns, price_paths,
                   first_paths, summary>>

\* Lines 257-261: the pool is not empty, the simulator is called.
Simulate ==
    /\ pc = "returns"
    /\ DOMAIN daily_returns # {}
    /\ hist_returns' = Values(daily_returns)
    /\ start_price' = ILocLast(market_df)["Portfolio_KRW"]
    /\ random_returns' \in RandomChoice(hist_returns', forecast_days, simulations)
    /\ price_paths' = PricePaths(random_returns', start_price', forecast_days, simulations)
    /\ pc' = "simulated"
    /\ UNCHANGED <<session, backoffice>>
    /\ UNCHANGED <<tickers, investment, df_stock, df_exchange, fx_warning,
                   market_df, daily_returns, forecast_days, simulations,
                   first_paths, summary>>

\* Lines 307-308: the pool is empty.
InsufficientData ==
    /\ pc = "returns"
    /\ DOMAIN daily_returns = {}
    /\ pc' = "insufficient_data"
    /\ UNCHANGED <<session, backoffice>>
    /\ UNCHANGED <<tickers, investment, df_stock, df_exchange, fx_warning,
                   market_df, daily_returns, hist_returns, start_price,
                   forecast_days, simulations, random_returns, price_paths,
                   first_paths, summary>>

\* Lines 263-281: the statistics of the final row and the two metric cards;
\* current_value is the start_price given to run_monte_carlo.
Summarize ==
    /\ pc \in {"simulated", "returned"}
    /\ final_values' = FinalRow(price_paths)
    /\ mean_val' = Mean(final_values')
    /\ var_95' = Percentile(final_values', VarPercent)
    /\ risk_amount' = RiskAmount(start_price, var_95')
    /\ IF \A x \in CardNumbers(mean_val', start_price, risk_amount') : IsFinite(x)
       THEN /\ risk_metric' = RiskMetric(risk_amount')
            /\ pc' = "summarized"
       ELSE /\ risk_metric' = Unset
            /\ pc' = "crashed"
    /\ UNCHANGED <<session, backoffice>>
    /\ UNCHANGED <<tickers, investment, df_stock, df_exchange, fx_warning,
                   market_df, daily_returns, forecast_days, simulations,
                   hist_returns, start_price, random_returns, price_paths>>
    /\ UNCHANGED first_paths

Next ==
    RunAnalysis \/ Valuate \/ ExtractReturns \/ Simulate \/ InsufficientData \/ Summarize

Spec == Init /\ [][Next]_vars

\* ------------------------------------------- run_monte_carlo on its own
\* Logarithms a return pool can hold: ln 2, ln 1/2, -inf and +inf.
PoolValues == {[ln |-> Num(2)], [ln |-> <<1, 2>>], [ln |-> Zero], [ln |-> PosInf]}
StartValues == {Num(InvestmentStep), NaN}

\* The elements of a finite set as a sequence, in some order.  Which pool
\* entry sits where, and how often, has no effect on the matrices
\* RandomChoice can return: pools are taken with distinct entries.
RECURSIVE SeqOfSet(_)
SeqOfSet(S) ==
    IF S = {} THEN <<>>
    ELSE LET x == CHOOSE y \in S : TRUE IN <<x>> \o SeqOfSet(S \ {x})

InitSim ==
    /\ pc = "call"
    /\ hist_returns \in {SeqOfSet(S) : S \in {T \in SUBSET PoolValues :
                                                 Cardinality(T) \in 1 .. MaxPool}}
    /\ start_price \in StartValues
    /\ forecast_days \in 1 .. MaxDays
    /\ simulations \in 1 .. MaxSims
    /\ tickers = <<>>
    /\ investment = 0
    /\ df_stock = None
    /\ df_exchange = None
    /\ fx_warning = FALSE
    /\ market_df = None
    /\ daily_returns = Unset
    /\ random_returns = Unset
    /\ price_paths = Unset
    /\ first_paths = Unset
    /\ NoSummary
    /\ SessionIdle

\* run_monte_carlo(hist_returns, start_price, days, simulations), lines 146-158.
CallRunMonteCarlo ==
    /\ pc = "call"
    /\ random_returns' \in RandomChoice(hist_returns, forecast_days, simulations)
    /\ price_paths' = PricePaths(random_returns', start_price, forecast_days, simulations)
    /\ pc' = "returned"
    /\ UNCHANGED <<session, backoffice>>
    /\ UNCHANGED <<tickers, investment, df_stock, df_exchange, fx_warning,
                   market_df, daily_returns, hist_returns, start_price,
                   forecast_days, simulations,
                   first_paths, summary>>

NextSim == CallRunMonteCarlo \/ Summarize

SpecSim == InitSim /\ [][NextSim]_vars

\* ------------------------------------- run_monte_carlo called twice over
\* The page calls run_monte_carlo(hist_returns, start_price, days,
\* simulations) again on every press of the button; the function takes no
\* seed and draws from numpy's global generator, which nothing seeds.
InitTwice ==
    /\ InitSim
    /\ forecast_days \in PageDays
    /\ simulations \in PageSims

\* A second call with the arguments of the first.
CallAgain ==
    /\ pc = "returned"
    /\ first_paths' = price_paths
    /\ random_returns' \in RandomChoice(hist_returns, forecast_days, simulations)
    /\ price_paths' = PricePaths(random_returns', start_price, forecast_days, simulations)
    /\ pc' = "returned_again"
    /\ UNCHANGED <<session, backoffice>>
    /\ UNCHANGED <<tickers, investment, df_stock, df_exchange, fx_warning,
                   market_df, daily_returns, hist_returns, start_price,
                   forecast_days, simulations, summary>>

NextTwice == CallRunMonteCarlo \/ CallAgain

SpecTwice == InitTwice /\ [][NextTwice]_vars

\* ------------------------------------------ the risk statistics on their own
\* Terminal values of the paths, and the values the portfolio can have today.
TerminalValues == {Num(900000), Num(950000), Num(1000000), Num(1050000), Num(1100000)}
CurrentValues == {Num(InvestmentStep), Num(900000), <<1819999, 2>>}

\* The page after run_monte_carlo returned one-day paths that end in the
\* terminal values f from the value `current`: the returns drawn are
\* ln(f[j] / current), and the pool holds each of them.
AfterSimulation(current, f) ==
    /\ pc = "simulated"
    /\ start_price = current
    /\ forecast_days = 1
    /\ simulations = Len(f)
    /\ random_returns = [k \in 1 .. 1 |-> [j \in 1 .. Len(f) |-> Log(Div(f[j], current))]]
    /\ hist_returns = SeqOfSet({random_returns[1][j] : j \in 1 .. Len(f)})
    /\ price_paths = PricePaths(random_returns, current, 1, Len(f))

InitRisk ==
    /\ \E n \in 1 .. MaxPaths : \E f \in [1 .. n -> TerminalValues] :
          \E current \in CurrentValues : AfterSimulation(current, f)
    /\ tickers = <<>>
    /\ investment = 0
    /\ df_stock = None
    /\ df_exchange = None
    /\ fx_warning = FALSE
    /\ market_df = None
    /\ daily_returns = Unset
    /\ first_paths = Unset
    /\ NoSummary
    /\ SessionIdle

NextRisk == Summarize

SpecRisk == InitRisk /\ [][NextRisk]_vars

\* ------------------------------------------- the page run again and again
\* Every press of the button executes the page script from the top: the
\* script's variables start afresh, while the results of get_stock_data and
\* get_exchange_rate_from_db are kept by @st.cache_data(ttl=3600) (lines 62
\* and 87) under their arguments, here the same in every run.
NotCached == [hit |-> FALSE]
Cached(df) == [hit |-> TRUE, value |-> df]

\* What the provider and the rate table can hold.
ProviderStock == PartialMaps([{"AAPL"} -> {One, Num(2)}])
ProviderExchange == {None, [d \in Calendar |-> One]}

\* get_stock_data / get_exchange_rate_from_db under the cache decorator:
\* the kept result when there is one, else the fetched data.
cache_data(entry, fetched) == IF entry.hit THEN entry.value ELSE fetched

InitRuns ==
    /\ pc = "run"
    /\ tickers = <<"AAPL">>
    /\ investment = InvestmentStep
    /\ forecast_days \in PageDays
    /\ simulations \in PageSims
    /\ provider \in [stock : ProviderStock, exchange : ProviderExchange]
    /\ cache = [stock |-> NotCached, exchange |-> NotCached]
    /\ df_stock = None
    /\ df_exchange = None
    /\ fx_warning = FALSE
    /\ market_df = None
    /\ daily_returns = Unset
    /\ hist_returns = Unset
    /\ start_price = NaN
    /\ random_returns = Unset
    /\ price_paths = Unset
    /\ first_paths = Unset
    /\ NoSummary
    /\ sheet = <<>>
    /\ today = 0
    /\ calls = <<>>
    /\ JobsIdle

\* Lines 187-194 with two dates selected: get_merged_market_data calls
\* get_stock_data, and get_exchange_rate_from_db when the stock frame is
\* not empty; each call goes through the cache.
RunAnalysisCached ==
    /\ UNCHANGED backoffice
    /\ pc = "run"
    /\ df_stock' = cache_data(cache.stock, provider.stock)
    /\ IF DOMAIN df_stock' = {}
       THEN /\ pc' = "no_stock_data"
            /\ cache' = [cache EXCEPT !.stock = Cached(df_stock')]
            /\ UNCHANGED <<df_exchange, market_df, fx_warning>>
       ELSE /\ df_exchange' = cache_data(cache.exchange, provider.exchange)
            /\ cache' = [stock |-> Cached(df_stock'), exchange |-> Cached(df_exchange')]
            /\ fx_warning' = (DOMAIN df_exchange' = {})
            /\ market_df' = get_merged_market_data(df_stock', df_exchange')
            /\ pc' = "merged"
    /\ UNCHANGED <<tickers, investment, daily_returns, hist_returns, start_price,
                   forecast_days, simulations, random_returns, price_paths,
                   first_paths, summary, provider>>

\* The frames the script had are gone when it is executed again.
Rerun ==
    /\ UNCHANGED backoffice
    /\ pc \in {"merged", "no_stock_data"}
    /\ pc' = "run"
    /\ df_stock' = None
    /\ df_exchange' = None
    /\ market_df' = None
    /\ fx_warning' = FALSE
    /\ UNCHANGED <<tickers, investment, daily_returns, hist_returns, start_price,
                   forecast_days, simulations, random_returns, price_paths,
                   first_paths, summary, session>>

\* Between two runs the provider publishes other data.
ProviderChanges ==
    /\ UNCHANGED backoffice
    /\ pc = "run"
    /\ provider' \in [stock : ProviderStock, exchange : ProviderExchange]
    /\ provider' # provider
    /\ UNCHANGED <<pc, tickers, investment, df_stock, df_exchange, fx_warning,
                   market_df, daily_returns, hist_returns, start_price,
                   forecast_days, simulations, random_returns, price_paths,
                   first_paths, summary, cache>>

\* ttl=3600: an hour after they were stored the kept results are dropped.
Expire ==
    /\ UNCHANGED backoffice
    /\ pc = "run"
    /\ cache # [stock |-> NotCached, exchange |-> NotCached]
    /\ cache' = [stock |-> NotCached, exchange |-> NotCached]
    /\ UNCHANGED <<pc, tickers, investment, df_stock, df_exchange, fx_warning,
                   market_df, daily_returns, hist_returns, start_price,
                   forecast_days, simulations, random_returns, price_paths,
                   first_paths, summary, provider>>

NextRuns == RunAnalysisCached \/ Rerun \/ ProviderChanges \/ Expire

SpecRuns == InitRuns /\ [][NextRuns]_vars

\* --------------------------------------- main.py: the subscriber sheet
\* The Monte Carlo page is not open.
PageIdle ==
    /\ pc = "off"
    /\ tickers = <<>>
    /\ investment = 0
    /\ df_stock = None
    /\ df_exchange = None
    /\ fx_warning = FALSE
    /\ market_df = None
    /\ daily_returns = Unset
    /\ forecast_days = 0
    /\ simulations = 0
    /\ hist_returns = Unset
    /\ start_price = NaN
    /\ random_returns = Unset
    /\ price_paths = Unset
    /\ first_paths = Unset
    /\ NoSummary
    /\ cache = <<>>
    /\ provider = <<>>

\* A row of the sheet: columns A..E.  Dates and times are day numbers, 0
\* for an empty cell; -1 stands for the caption of a header cell.
Col == <<"email", "start_date", "end_date", "register_time", "canceled_at">>
Blank == 0
BlankRow ==
    [email |-> "", start_date |-> Blank, end_date |-> Blank,
     register_time |-> Blank, canceled_at |-> Blank]
Header ==
    [email |-> "email", start_date |-> -1, end_date |-> -1,
     register_time |-> -1, canceled_at |-> -1]
Emails == {"a@x.com", "b@x.com"}
\* The days looked at: a first day, and the second day after the end of a
\* subscription started then.
Days == {1, 2 + SubscriptionDays}

\* sheet.get_all_values(): the rows down to the last one that is not empty.
get_all_values(s) ==
    LET used == {i \in 1 .. Len(s) : s[i] # BlankRow}
    IN  IF used = {} THEN <<>> ELSE SubSeq(s, 1, SetMax(used))

\* sheet.update_cell(r, k, v), on a grid with empty rows below the data.
update_cell(s, r, k, v) ==
    [i \in 1 .. (IF r > Len(s) THEN r ELSE Len(s)) |->
        LET row == IF i <= Len(s) THEN s[i] ELSE BlankRow
        IN  IF i = r THEN [row EXCEPT ![Col[k]] = v] ELSE row]

\* Lines 136-139 of main.py (and 57-61 of ReportGenerator.py): the cancel
\* time is empty and the end date has not passed.
IsActive(row, day) == row.canceled_at = Blank /\ row.end_date >= day

\* Lines 130-141: the scan for an active row of the email, header skipped.
is_active_subscriber(rows, email, day) ==
    /\ Len(rows) > 1
    /\ \E i \in 2 .. Len(rows) : rows[i].email = email /\ IsActive(rows[i], day)

\* Lines 77-91: the first row of the email whose cancel time is empty, as a
\* sheet row number; 0 for None.
target_row_index(rows, email) ==
    LET found == {i \in 2 .. Len(rows) :
                     rows[i].email = email /\ rows[i].canceled_at = Blank}
    IN  IF found = {} THEN 0 ELSE SetMin(found)

\* ReportGenerator.py lines 46-69: get_all_records reads the rows below the
\* header by the header's captions; a row counts with an email, an end date
\* not passed and no cancel time.
get_active_subscribers(s, day) ==
    IF Len(s) = 0 \/ s[1] # Header THEN {}
    ELSE {s[i].email : i \in {j \in 2 .. Len(s) :
                                  /\ s[j].email # ""
                                  /\ s[j].end_date # Blank
                                  /\ IsActive(s[j], day)}}

\* The cell values save_to_google_sheet writes (lines 156-160).
NewCell(email, day, k) ==
    CASE k = 1 -> email
      [] k = 2 -> day
      [] k = 3 -> day + SubscriptionDays
      [] k = 4 -> day
      [] OTHER -> Blank

Idle ==
    [pc |-> "idle", op |-> "none", email |-> "", row |-> 0, col |-> 0, day |-> 0,
     result |-> "none"]
Serving(p) == calls[p].pc \notin {"idle", "done"}
\* The call returns and its locals are gone.
Return(p, value) ==
    [calls EXCEPT ![p] = [Idle EXCEPT !.pc = "done", !.op = calls[p].op,
                                      !.email = calls[p].email, !.result = value]]

\* The subscribe form is submitted (lines 208-214).
SaveStart(p, email) ==
    /\ ~Serving(p)
    /\ Len(sheet) <= MaxRows
    /\ calls' = [calls EXCEPT ![p] = [Idle EXCEPT !.pc = "read", !.op = "save",
                                                  !.email = email]]
    /\ UNCHANGED <<sheet, today>>
    /\ UNCHANGED <<page, jobs>>

\* Lines 111-147: the sheet is opened and read and the rows are scanned.
\* A failure before the read returns "error"; a failure of the read itself
\* leaves rows = [] (lines 119-122).
SaveRead(p) ==
    /\ calls[p].pc = "read"
    /\ calls[p].op = "save"
    /\ \/ calls' = Return(p, "error")
       \/ \E rows \in {get_all_values(sheet), <<>>} :
             IF is_active_subscriber(rows, calls[p].email, today)
             THEN calls' = Return(p, "duplicate")
             ELSE calls' = [calls EXCEPT ![p].pc = "write", ![p].row = Len(rows) + 1,
                                         ![p].col = 1, ![p].day = today]
    /\ UNCHANGED <<sheet, today>>
    /\ UNCHANGED <<page, jobs>>

\* Lines 156-162: one update_cell call, or its failure (line 164).
SaveWrite(p) ==
    /\ calls[p].pc = "write"
    /\ calls[p].op = "save"
    /\ \/ /\ calls' = Return(p, "error")
          /\ UNCHANGED sheet
       \/ /\ sheet' = update_cell(sheet, calls[p].row, calls[p].col,
                                   NewCell(calls[p].email, calls[p].day, calls[p].col))
          /\ calls' = IF calls[p].col = 5 THEN Return(p, "success")
                      ELSE [calls EXCEPT ![p].col = calls[p].col + 1]
    /\ UNCHANGED today
    /\ UNCHANGED <<page, jobs>>

\* The unsubscribe form is submitted (lines 234-239).
UnsubscribeStart(p, email) ==
    /\ ~Serving(p)
    /\ calls' = [calls EXCEPT ![p] = [Idle EXCEPT !.pc = "read", !.op = "unsubscribe",
                                                  !.email = email]]
    /\ UNCHANGED <<sheet, today>>
    /\ UNCHANGED <<page, jobs>>

\* Lines 64-91 and 102-108.
UnsubscribeRead(p) ==
    /\ calls[p].pc = "read"
    /\ calls[p].op = "unsubscribe"
    /\ \/ calls' = Return(p, "error")
       \/ LET target == target_row_index(get_all_values(sheet), calls[p].email)
          IN  IF target = 0 THEN calls' = Return(p, "not_found")
              ELSE calls' = [calls EXCEPT ![p].pc = "write", ![p].row = target,
                                          ![p].col = 5, ![p].day = today]
    /\ UNCHANGED <<sheet, today>>
    /\ UNCHANGED <<page, jobs>>

\* Lines 94-101.
UnsubscribeWrite(p) ==
    /\ calls[p].pc = "write"
    /\ calls[p].op = "unsubscribe"
    /\ \/ /\ calls' = Return(p, "error")
          /\ UNCHANGED sheet
       \/ /\ sheet' = update_cell(sheet, calls[p].row, 5, calls[p].day)
          /\ calls' = Return(p, "success")
    /\ UNCHANGED today
    /\ UNCHANGED <<page, jobs>>

\* Days go by while no submission is being served.
TimePasses ==
    /\ \A p \in DOMAIN calls : ~Serving(p)
    /\ today' \in {d \in Days : d > today}
    /\ UNCHANGED <<sheet, calls>>
    /\ UNCHANGED <<page, jobs>>

\* One submission at a time.
InitSheet ==
    /\ PageIdle
    /\ sheet = <<Header>>
    /\ today = 1
    /\ calls = [p \in {1} |-> Idle]
    /\ JobsIdle

NextSheet ==
    \/ \E email \in Emails : SaveStart(1, email)
    \/ SaveRead(1)
    \/ SaveWrite(1)
    \/ \E email \in Emails : UnsubscribeStart(1, email)
    \/ UnsubscribeRead(1)
    \/ UnsubscribeWrite(1)
    \/ TimePasses

SpecSheet == InitSheet /\ [][NextSheet]_vars

\* Two visitors submit the subscribe form at the same time, each with an
\* email of their own; Streamlit runs each session's script in its own thread.
Visitors == {1, 2}
EmailOf == <<"a@x.com", "b@x.com">>

InitRace ==
    /\ PageIdle
    /\ sheet = <<Header>>
    /\ today = 1
    /\ calls = [p \in Visitors |-> Idle]
    /\ JobsIdle

NextRace ==
    \/ \E p \in Visitors : SaveStart(p, EmailOf[p])
    \/ \E p \in Visitors : SaveRead(p)
    \/ \E p \in Visitors : SaveWrite(p)
    \/ TimePasses

SpecRace == InitRace /\ [][NextRace]_vars

\* ------------------------------------- ReportGenerator.py: the report job
\* Lines 95-98.
AVAILABLE_MODELS == <<"models/gemini-2.5-flash", "models/gemini-2.5-flash-lite">>
\* What generate_with_rotation returns when no model answered (line 225);
\* the text is written in Korean in the source.
AnalysisFailed == <<"analysis failed", "None">>
\* The text of a model's answer.
ResponseText == "insight"
DailyReportFile == "data/daily_report.md"
ArchiveFile == "data/archive/report.md"

\* Lines 228-245.  Python binds the arguments of a call to the two
\* parameters before the body runs: a call with another number of arguments
\* raises TypeError and writes nothing.
save_to_markdown(files, args) ==
    IF Len(args) = 2
    THEN [raised |-> FALSE,
          files |-> [f \in DOMAIN files \cup {DailyReportFile, ArchiveFile} |->
                        CASE f = DailyReportFile -> args[1]
                          [] f = ArchiveFile -> args[2]
                          [] OTHER -> files[f]]]
    ELSE [raised |-> TRUE, files |-> files]

JobStart ==
    [pc |-> "search", reports |-> <<>>, i |-> 0, success_count |-> 0,
     collected_insights |-> <<>>, purpose |-> "none", tried |-> <<>>,
     insight |-> "", model_used |-> "", files |-> <<>>, sent |-> <<>>]

\* Line 275: the search returns some reports, or none (also on an error,
\* lines 159-161).
SearchReports ==
    /\ report_job.pc = "search"
    /\ \E n \in 0 .. MaxReports :
          report_job' = [report_job EXCEPT
                            !.reports = [k \in 1 .. n |-> k],
                            !.i = 1,
                            !.pc = IF n = 0 THEN "no_reports" ELSE "extract"]
    /\ UNCHANGED <<page, subscribers, daily_job>>

\* A placeholder is to be saved: lines 277-280 when nothing was found, lines
\* 384-386 when nothing was collected.
SavePlaceholder ==
    /\ report_job.pc \in {"no_reports", "no_insights"}
    /\ LET saved == save_to_markdown(report_job.files, <<"placeholder">>)
       IN  report_job' = [report_job EXCEPT
                             !.files = saved.files,
                             !.pc = IF saved.raised THEN "crashed" ELSE "done"]
    /\ UNCHANGED <<page, subscribers, daily_job>>

\* Lines 285-290 and 327-328: the text of the next report is fetched; it is
\* long enough, or the report is passed over.
ExtractText ==
    /\ report_job.pc = "extract"
    /\ report_job.i <= Len(report_job.reports)
    /\ \/ report_job' = [report_job EXCEPT !.pc = "rotate", !.purpose = "report",
                                            !.tried = <<>>]
       \/ report_job' = [report_job EXCEPT !.i = report_job.i + 1]
    /\ UNCHANGED <<page, subscribers, daily_job>>

\* Lines 212-223: the next model of the list is called; it answers, or the
\* call raises and the loop goes on.
TryModel ==
    /\ report_job.pc = "rotate"
    /\ Len(report_job.tried) < Len(AVAILABLE_MODELS)
    /\ LET model_name == AVAILABLE_MODELS[Len(report_job.tried) + 1]
       IN  \/ report_job' = [report_job EXCEPT
                                 !.tried = Append(@, [model |-> model_name, ok |-> TRUE]),
                                 !.insight = ResponseText,
                                 !.model_used = model_name,
                                 !.pc = "returned"]
           \/ report_job' = [report_job EXCEPT
                                 !.tried = Append(@, [model |-> model_name, ok |-> FALSE])]
    /\ UNCHANGED <<page, subscribers, daily_job>>

\* Line 225: the list is used up.
AllModelsFailed ==
    /\ report_job.pc = "rotate"
    /\ Len(report_job.tried) = Len(AVAILABLE_MODELS)
    /\ report_job' = [report_job EXCEPT !.insight = AnalysisFailed[1],
                                        !.model_used = AnalysisFailed[2],
                                        !.pc = "returned"]
    /\ UNCHANGED <<page, subscribers, daily_job>>

\* Lines 319-325: the summary of the report is collected and counted.
CollectInsight ==
    /\ report_job.pc = "returned"
    /\ report_job.purpose = "report"
    /\ report_job' = [report_job EXCEPT
                          !.collected_insights =
                              Append(@, [report |-> report_job.i,
                                         insight |-> report_job.insight]),
                          !.success_count = @ + 1,
                          !.i = @ + 1,
                          !.pc = "extract"]
    /\ UNCHANGED <<page, subscribers, daily_job>>

\* Lines 330-364 and 384: after the last report the synthesis is asked for
\* when something was collected.
EndOfReports ==
    /\ report_job.pc = "extract"
    /\ report_job.i > Len(report_job.reports)
    /\ report_job' = IF report_job.collected_insights # <<>>
                     THEN [report_job EXCEPT !.pc = "rotate", !.purpose = "final",
                                             !.tried = <<>>]
                     ELSE [report_job EXCEPT !.pc = "no_insights"]
    /\ UNCHANGED <<page, subscribers, daily_job>>

\* Lines 375-378: the synthesis and the full report are saved.
SaveReport ==
    /\ report_job.pc = "returned"
    /\ report_job.purpose = "final"
    /\ LET saved == save_to_markdown(report_job.files,
                                     <<report_job.insight, "final_report_content">>)
       IN  report_job' = [report_job EXCEPT
                             !.files = saved.files,
                             !.pc = IF saved.raised THEN "crashed" ELSE "mail"]
    /\ UNCHANGED <<page, subscribers, daily_job>>

\* Lines 247-268 and 379: the report is mailed, or the failure is printed.
SendEmail ==
    /\ report_job.pc = "mail"
    /\ \E delivered \in BOOLEAN :
          report_job' = [report_job EXCEPT
                            !.sent = IF delivered THEN Append(@, "final_report_content")
                                     ELSE @,
                            !.pc = "done"]
    /\ UNCHANGED <<page, subscribers, daily_job>>

InitReport ==
    /\ PageIdle
    /\ sheet = <<>>
    /\ today = 0
    /\ calls = <<>>
    /\ report_job = JobStart
    /\ daily_job = <<>>

NextReport ==
    \/ SearchReports
    \/ SavePlaceholder
    \/ ExtractText
    \/ TryModel
    \/ AllModelsFailed
    \/ CollectInsight
    \/ EndOfReports
    \/ SaveReport
    \/ SendEmail

SpecReport == InitReport /\ [][NextReport]_vars

\* ------------------------------------------- daily_job.py: the daily job
\* The text of an answer of the model, and what generate_synthesis returns
\* when the call raised (line 229).
AnswerText == "text"
SynthesisFailed == "analysis failed: e"

DailyStart ==
    [pc |-> "search", reports |-> <<>>, i |-> 0, res_ko |-> "", res_en |-> "",
     structured_summaries |-> <<>>, outcome |-> <<>>, individual_reports |-> <<>>,
     final_ko |-> "", final_en |-> "", daily_reports |-> <<>>, sent |-> <<>>]

\* The dictionary of lines 329-334 and 336-341.
SummaryRow(job) ==
    [title |-> job.reports[job.i], summary_ko |-> job.res_ko, summary_en |-> job.res_en]

\* The loop goes on with the next report; outcome notes what became of this
\* one.
NextReportOf(job, what) ==
    [job EXCEPT !.i = @ + 1, !.res_ko = "", !.res_en = "", !.pc = "extract",
                !.outcome = Append(@, what)]

\* Line 257: the search returns some reports, or none (lines 77-79, 93-97).
DailySearch ==
    /\ daily_job.pc = "search"
    /\ \E n \in 0 .. MaxReports :
          daily_job' = [daily_job EXCEPT !.reports = [k \in 1 .. n |-> k],
                                        !.i = 1, !.pc = "extract"]
    /\ UNCHANGED <<page, subscribers, report_job>>

\* Lines 263-268: the text is extracted, or the report gives none.
DailyExtract ==
    /\ daily_job.pc = "extract"
    /\ daily_job.i <= Len(daily_job.reports)
    /\ \/ daily_job' = [daily_job EXCEPT !.pc = "ko"]
       \/ daily_job' = NextReportOf(daily_job, "no_text")
    /\ UNCHANGED <<page, subscribers, report_job>>

\* Line 299: the Korean card is asked for; the call answers or raises
\* (line 345).
CallKorean ==
    /\ daily_job.pc = "ko"
    /\ \/ daily_job' = [daily_job EXCEPT !.res_ko = AnswerText, !.pc = "en"]
       \/ daily_job' = NextReportOf(daily_job, "error")
    /\ UNCHANGED <<page, subscribers, report_job>>

\* Line 326: the English card.
CallEnglish ==
    /\ daily_job.pc = "en"
    /\ \/ daily_job' = [daily_job EXCEPT !.res_en = AnswerText, !.pc = "insert"]
       \/ daily_job' = NextReportOf(daily_job, "error")
    /\ UNCHANGED <<page, subscribers, report_job>>

\* The insert with the summary collected whatever became of the row.
InsertReport_Unchecked ==
    /\ daily_job.pc = "insert"
    /\ \E stored \in BOOLEAN :
          daily_job' =
              [NextReportOf(daily_job, IF stored THEN "ok" ELSE "error") EXCEPT
                  !.individual_reports =
                      IF stored THEN Append(@, SummaryRow(daily_job)) ELSE @,
                  !.structured_summaries = Append(@, SummaryRow(daily_job))]
    /\ UNCHANGED <<page, subscribers, report_job>>

\* Lines 329-343: the row is inserted and then the summary is collected; the
\* insert may raise, with the row stored or not (line 345).
InsertReport ==
    /\ daily_job.pc = "insert"
    /\ \/ daily_job' =
              [NextReportOf(daily_job, "ok") EXCEPT
                  !.individual_reports = Append(@, SummaryRow(daily_job)),
                  !.structured_summaries = Append(@, SummaryRow(daily_job))]
       \/ \E stored \in BOOLEAN :
             daily_job' =
                 [NextReportOf(daily_job, "error") EXCEPT
                     !.individual_reports =
                         IF stored THEN Append(@, SummaryRow(daily_job)) ELSE @]
    /\ UNCHANGED <<page, subscribers, report_job>>

\* Lines 349 and 398-399: after the last report.
EndOfSummaries ==
    /\ daily_job.pc = "extract"
    /\ daily_job.i > Len(daily_job.reports)
    /\ daily_job' = [daily_job EXCEPT
                         !.pc = IF daily_job.structured_summaries # <<>>
                                THEN "synthesis" ELSE "done"]
    /\ UNCHANGED <<page, subscribers, report_job>>

\* Lines 352-354: the two syntheses; generate_synthesis returns the answer
\* or the text of the failure.
Synthesize ==
    /\ daily_job.pc = "synthesis"
    /\ \E ko \in {AnswerText, SynthesisFailed}, en \in {AnswerText, SynthesisFailed} :
          daily_job' = [daily_job EXCEPT !.final_ko = ko, !.final_en = en,
                                        !.pc = "insert_daily"]
    /\ UNCHANGED <<page, subscribers, report_job>>

\* Lines 361-367: the insert into daily_reports; a failure is not caught.
InsertDaily ==
    /\ daily_job.pc = "insert_daily"
    /\ \/ daily_job' = [daily_job EXCEPT
                             !.daily_reports =
                                 Append(@, [summary_ko |-> daily_job.final_ko,
                                            summary_en |-> daily_job.final_en]),
                             !.pc = "mail_ko"]
       \/ daily_job' = [daily_job EXCEPT !.pc = "crashed"]
    /\ UNCHANGED <<page, subscribers, report_job>>

\* send_email_batch (lines 231-249) for the subscribers of one language
\* (lines 388-396): nothing without receivers, else the mail is sent or the
\* failure is printed.
Mailed(job, lang, receivers, delivered) ==
    IF receivers = 0 THEN job.sent
    ELSE Append(job.sent, [lang |-> lang, delivered |-> delivered])

MailKorean ==
    /\ daily_job.pc = "mail_ko"
    /\ \E receivers \in 0 .. 1, delivered \in BOOLEAN :
          daily_job' = [daily_job EXCEPT
                            !.sent = Mailed(daily_job, "ko", receivers, delivered),
                            !.pc = "mail_en"]
    /\ UNCHANGED <<page, subscribers, report_job>>

MailEnglish ==
    /\ daily_job.pc = "mail_en"
    /\ \E receivers \in 0 .. 1, delivered \in BOOLEAN :
          daily_job' = [daily_job EXCEPT
                            !.sent = Mailed(daily_job, "en", receivers, delivered),
                            !.pc = "done"]
    /\ UNCHANGED <<page, subscribers, report_job>>

InitDaily ==
    /\ PageIdle
    /\ sheet = <<>>
    /\ today = 0
    /\ calls = <<>>
    /\ report_job = <<>>
    /\ daily_job = DailyStart

NextDaily ==
    \/ DailySearch
    \/ DailyExtract
    \/ CallKorean
    \/ CallEnglish
    \/ InsertReport
    \/ EndOfSummaries
    \/ Synthesize
    \/ InsertDaily
    \/ MailKorean
    \/ MailEnglish

SpecDaily == InitDaily /\ [][NextDaily]_vars

\* ================================================================ claims
Valued ==
    pc \in {"valued", "returns", "simulated", "insufficient_data", "summarized", "crashed"}
Portfolio == Column(market_df, "Portfolio_KRW")
Rows == Cardinality(DOMAIN market_df)
FxEmpty == DOMAIN df_exchange = {}
\* The date0 price of some requested ticker is zero or missing.
BaseInvalid ==
    /\ DOMAIN df_stock # {}
    /\ \E t \in TickerSet(tickers) : ILocFirst(df_stock)[t] \in {NaN, Zero}

\* C1: when the FX series is entirely empty for the requested range, no rate
\* is fabricated (no merged frame is built) and no downstream stage
\* (valuation, return extraction, simulation) is invoked for that run.
C1_NoFabricatedRate ==
    FxEmpty => /\ market_df = None
               /\ pc \in {"run", "period_error", "no_stock_data"}

\* C2: whenever a portfolio value series is produced, its value on date0
\* (the first row of the aligned frame) equals the investment amount.
C2_Date0EqualsInvestment ==
    Valued => ILocFirst(market_df)["Portfolio_KRW"] = Num(investment)

\* The value the claim's formula gives from row date0 and row t alone:
\* the sum over the assets S of allocation * price[t]/price[date0] *
\* fx[t]/fx[date0].
RECURSIVE ValueFromRows(_, _, _, _)
ValueFromRows(row0, rowt, S, allocation) ==
    IF S = {} THEN Zero
    ELSE LET a == CHOOSE x \in S : TRUE
         IN  Add(Mul(allocation,
                     Mul(Div(rowt[a], row0[a]), Div(rowt["USD_KRW"], row0["USD_KRW"]))),
                 ValueFromRows(row0, rowt, S \ {a}, allocation))

\* Asset AAPL doubles and asset MSFT is flat between date0 and d, FX flat.
ScenarioA(d) ==
    /\ tickers = <<"AAPL", "MSFT">>
    /\ IsPositive(ILocFirst(market_df)["AAPL"])
    /\ market_df[d]["AAPL"] = Mul(Num(2), ILocFirst(market_df)["AAPL"])
    /\ IsPositive(ILocFirst(market_df)["MSFT"])
    /\ market_df[d]["MSFT"] = ILocFirst(market_df)["MSFT"]
    /\ market_df[d]["USD_KRW"] = ILocFirst(market_df)["USD_KRW"]

\* C3: on every date t the portfolio value is the sum over the assets of
\* allocation x price[t]/price[date0] x fx[t]/fx[date0], a function of row
\* date0 and row t only; two assets of 500,000 each, one doubling and one
\* flat under a flat FX rate, give 1,500,000.  Stated of the frame the
\* valuation stage has just produced; the later stages leave the frame as it
\* is (StageStep).
C3_ValueFormula ==
    pc = "valued" =>
        \A d \in DOMAIN market_df :
            /\ market_df[d]["Portfolio_KRW"] =
                  ValueFromRows(ILocFirst(market_df), market_df[d], TickerSet(tickers),
                                Div(Num(investment), Num(Cardinality(TickerSet(tickers)))))
            /\ (ScenarioA(d) /\ investment = 1000000)
                  => market_df[d]["Portfolio_KRW"] = Num(1500000)

\* C3 witness: three rows, the middle one unlike the others, and the last
\* row in scenario A worth 1,500,000.
C3_Witness ==
    /\ pc = "valued"
    /\ DOMAIN market_df = {1, 2, 3}
    /\ ScenarioA(3)
    /\ market_df[2]["AAPL"] = NaN
    /\ Portfolio[3] = Num(1500000)

\* C4: when the date0 price of a requested asset is zero or missing, no
\* portfolio value series is produced and no later stage runs.
C4_InvalidBaselineFailsFast == BaseInvalid => ~Valued

\* C5: the simulator is invoked only on a pool of at least 2 returns.
C5_SimulatorNeedsTwoReturns ==
    pc \in {"simulated", "summarized", "crashed"} => Len(hist_returns) >= 2

\* The portfolio values that are present and finite.
ValidDates == {d \in DOMAIN market_df : IsFinite(Portfolio[d])}
Extracted ==
    pc \in {"returns", "simulated", "insufficient_data", "summarized", "crashed"}

C7_PoolFinitePositive ==
    Extracted =>
        \A d \in DOMAIN daily_returns :
            /\ LogIsFinite(daily_returns[d])
            /\ IsPositive(Portfolio[d])
            /\ IsPositive(Shift1(Portfolio)[d])

Range(f) == {f[i] : i \in DOMAIN f}
Returned == pc \in {"returned", "simulated", "summarized", "crashed"}

\* C8: row 0 of the returned paths holds start_price in every one of the
\* simulation columns, whatever returns are drawn.
C8_SeedRowIsStart ==
    Returned =>
        /\ DOMAIN price_paths = 0 .. forecast_days
        /\ DOMAIN price_paths[0] = 1 .. simulations
        /\ \A j \in 1 .. simulations : price_paths[0][j] = start_price

\* C8 witness: two paths that leave a finite start value in different
\* directions after row 0.
C8_Witness ==
    /\ pc = "returned"
    /\ simulations = 2
    /\ IsPositive(start_price)
    /\ price_paths[1][1] # start_price
    /\ price_paths[1][2] # price_paths[1][1]

\* C9: every sampled return is an element of the historical pool, and the
\* matrices the sampling can return are all the assignments of pool elements
\* to the (step, path) cells: no draw constrains another.
C9_BootstrapDraws ==
    /\ pc = "call" =>
          RandomChoice(hist_returns, forecast_days, simulations)
             = [1 .. forecast_days -> [1 .. simulations -> Range(hist_returns)]]
    /\ Returned =>
          random_returns \in
              [1 .. forecast_days -> [1 .. simulations -> Range(hist_returns)]]

\* C9 witness: one pool element drawn twice within a path and again in
\* another path, next to a different one.
C9_Witness ==
    /\ pc = "returned"
    /\ forecast_days = 2
    /\ simulations = 2
    /\ random_returns[1][1] = random_returns[2][1]
    /\ random_returns[1][2] = random_returns[1][1]
    /\ random_returns[2][2] # random_returns[1][1]

\* The returns sampled for path j, in step order.
PathReturns(j) == [k \in 1 .. forecast_days |-> random_returns[k][j]]

\* The sum of the first k entries of a sequence of logarithms.
RECURSIVE SumFirst(_, _)
SumFirst(seq, k) == IF k = 0 THEN Log(One) ELSE LogAdd(SumFirst(seq, k - 1), seq[k])

\* C10: for every path j and step k >= 1, paths[k][j] is start_price times
\* the exponential of the sum of the first k returns sampled for path j,
\* which is paths[k-1][j] compounded by the k-th return of path j; only
\* path j's returns enter.
C10_PathCompounding ==
    Returned =>
        \A j \in 1 .. simulations : \A k \in 1 .. forecast_days :
            /\ price_paths[k][j] = Mul(start_price, Exp(SumFirst(PathReturns(j), k)))
            /\ price_paths[k][j] = Mul(price_paths[k - 1][j], Exp(random_returns[k][j]))

\* C10 witness: two steps, two paths with different returns, the second
\* step moving path 1 away from its first-step value.
C10_Witness ==
    /\ pc = "returned"
    /\ forecast_days = 2
    /\ simulations = 2
    /\ PathReturns(1) # PathReturns(2)
    /\ IsPositive(price_paths[2][1])
    /\ price_paths[2][1] # price_paths[1][1]
    /\ price_paths[2][1] # price_paths[2][2]

\* C11: run_monte_carlo accepts an optional random seed, and two calls with
\* the same seed and the same arguments return identical path matrices.
\* The function has no seed parameter; a repeated call with the same
\* arguments draws afresh from the unseeded global generator.
C11_SameInputsSamePaths == pc = "returned_again" => price_paths = first_paths

\* ---------------------------------------------------------- C12 .. C15
Summarized == pc \in {"summarized", "crashed"}
Paths == 1 .. Len(final_values)
\* How many terminal values lie strictly below v, and how many at or below.
Below(v) == Cardinality({j \in Paths : Less(final_values[j], v)})
AtMost(v) == Cardinality({j \in Paths : Leq(final_values[j], v)})
\* The k-th smallest terminal value, by counting.
OrderStat(k) ==
    CHOOSE v \in Range(final_values) : Below(v) < k /\ k <= AtMost(v)
ScenarioD ==
    /\ Summarized
    /\ start_price = Num(1000000)
    /\ final_values = <<Num(900000), Num(950000), Num(1000000), Num(1050000), Num(1100000)>>

\* var_95 sits between the order statistics on either side of rank
\* 1 + 5/100 * (n-1), at the fraction of the way that rank asks for, and
\* the loss is the current value less var_95.
InterpolatedVar ==
    Summarized /\ (\A j \in Paths : IsFinite(final_values[j])) =>
        LET n == Len(final_values)
            h == VarPercent * (n - 1)
            lo == (h \div 100) + 1
            hi == IF lo + 1 > n THEN n ELSE lo + 1
        IN  /\ Mul(Num(100), Sub(var_95, OrderStat(lo)))
                  = Mul(Num(h % 100), Sub(OrderStat(hi), OrderStat(lo)))
            /\ risk_amount = Sub(start_price, var_95)

\* C12 (as stated): var_95 is the linearly interpolated 5th percentile of
\* the final row, so that at most 5% of the terminal values lie strictly
\* below it; scenario D gives var_95 = 910,000 and a loss of 90,000.
C12_AtMostFivePercentBelow ==
    /\ InterpolatedVar
    /\ ScenarioD => var_95 = Num(910000) /\ risk_amount = Num(90000)
    /\ Summarized /\ (\A j \in Paths : IsFinite(final_values[j])) =>
          100 * Below(var_95) <= VarPercent * Len(final_values)

\* C12 (amended): var_95 is the linearly interpolated 5th percentile of the
\* final row, a value with at most floor(0.05 * (n-1)) + 1 of the n terminal
\* values strictly below it; scenario D gives 910,000 and a loss of 90,000,
\* with one of the five values (20%) below var_95.
C12_InterpolatedPercentile ==
    /\ InterpolatedVar
    /\ ScenarioD => var_95 = Num(910000) /\ risk_amount = Num(90000) /\ Below(var_95) = 1
    /\ Summarized /\ (\A j \in Paths : IsFinite(final_values[j])) =>
          Below(var_95) <= ((VarPercent * (Len(final_values) - 1)) \div 100) + 1

C12_Witness ==
    /\ ScenarioD
    /\ pc = "summarized"
    /\ var_95 = Num(910000)
    /\ risk_amount = Num(90000)

\* C13 (as stated): the loss is current_value - var_95, never clamped; when
\* var_95 exceeds the current value the loss is negative, and it is shown
\* to the user as a negative figure on the risk card.
C13_NegativeLossDisplayed ==
    Summarized /\ Less(start_price, var_95) =>
        /\ risk_amount = Sub(start_price, var_95)
        /\ Less(risk_amount, Zero)
        /\ pc = "summarized"
        /\ risk_metric.number < 0

\* C13 (amended): the loss is current_value - var_95, never clamped, and
\* negative when var_95 exceeds the current value; the card shows a fixed
\* minus sign followed by the loss truncated toward zero with its own
\* sign, so a negative loss of one won or more is shown as a negative
\* number ("--50,000") and one between -1 and 0 as "-0".
C13_LossNeverClamped ==
    Summarized /\ Less(start_price, var_95) =>
        /\ risk_amount = Sub(start_price, var_95)
        /\ Less(risk_amount, Zero)
        /\ pc = "summarized" =>
              /\ risk_metric.prefix = "-"
              /\ risk_metric.number <= 0
              /\ Leq(risk_amount, Num(risk_metric.number))
              /\ Less(Num(risk_metric.number), Add(risk_amount, One))
              /\ Leq(risk_amount, Num(-1)) => risk_metric.number < 0

C13_Witness ==
    /\ pc = "summarized"
    /\ Less(start_price, var_95)
    /\ risk_amount = Num(-50000)
    /\ risk_metric = [prefix |-> "-", number |-> -50000]

\* Percentile parameters compared with one another.
Percentiles == {0, VarPercent, 50, 95, 100}

\* C14: over one sample of terminal values the percentile is monotone in
\* its parameter: for p1 <= p2 the p1-th percentile is <= the p2-th.
C14_PercentileMonotone ==
    Summarized =>
        \A p1, p2 \in Percentiles :
            p1 <= p2 => Leq(Percentile(final_values, p1), Percentile(final_values, p2))

\* The sum of a row from entry i on, right to left.
RECURSIVE SumFrom(_, _)
SumFrom(row, i) == IF i > Len(row) THEN Zero ELSE Add(row[i], SumFrom(row, i + 1))

\* The matrix `paths` with every row but the last overwritten by `fill`.
OtherPaths(paths, fill) ==
    [k \in DOMAIN paths |->
        IF k = SetMax(DOMAIN paths) THEN paths[k]
        ELSE [j \in DOMAIN paths[k] |-> fill]]

\* C15: the mean, var_95 and the loss are a function of the final row of
\* the paths and of the current value alone: a matrix that agrees with the
\* simulated one on the final row gives the same figures, and the mean is
\* the sum of the final row divided by the number of paths.
C15_SummaryOfFinalRow ==
    Summarized =>
        LET row == price_paths[forecast_days]
        IN  /\ final_values = row
            /\ mean_val = Div(SumFrom(row, 1), Num(simulations))
            /\ var_95 = Percentile(row, VarPercent)
            /\ risk_amount = Sub(start_price, var_95)
            /\ \A fill \in {Zero, One, NaN} :
                  LET other == FinalRow(OtherPaths(price_paths, fill))
                  IN  /\ Mean(other) = mean_val
                      /\ Percentile(other, VarPercent) = var_95
                      /\ RiskAmount(start_price, Percentile(other, VarPercent)) = risk_amount

C15_Witness ==
    /\ pc = "summarized"
    /\ forecast_days = 2
    /\ simulations = 2
    /\ price_paths[1] # price_paths[2]
    /\ final_values = <<Num(4 * InvestmentStep), Num(InvestmentStep)>>
    /\ mean_val = Num(2500000)
    /\ var_95 = Num(1150000)
    /\ risk_amount = Num(-150000)

\* ---------------------------------------------------------- C16 .. C19
\* get_merged_market_data has returned a frame.
Merged == pc \notin {"run", "period_error", "no_stock_data"}
FxColumn == Column(market_df, "USD_KRW")

\* C16: after alignment the FX column has no missing value on any row,
\* provided at least one FX observation exists in the requested range, also
\* when every FX observation falls on a date without a stock row.
C16_FxColumnFilled ==
    Merged /\ ~FxEmpty => \A d \in DOMAIN market_df : ~IsNaN(FxColumn[d])

\* C17: a date of the aligned frame with no FX observation of its own uses
\* the last FX observation before it in the fetched FX series; only a
\* date before the first FX observation uses the earliest later one.
C17_LastKnownRate ==
    Merged /\ ~FxEmpty =>
        \A d \in DOMAIN market_df \ DOMAIN df_exchange :
            LET before == {e \in DOMAIN df_exchange : e < d}
                after == {e \in DOMAIN df_exchange : e > d}
            IN  FxColumn[d] = IF before # {} THEN df_exchange[SetMax(before)]
                              ELSE df_exchange[SetMin(after)]

WithoutRow(df, d) ==
    [e \in DOMAIN df \ {d} |-> [c \in DOMAIN df[e] \ {"Portfolio_KRW"} |-> df[e][c]]]

\* Some requested ticker has no price on date d.
PriceMissing(d) == \E t \in TickerSet(tickers) : IsNaN(market_df[d][t])

\* C19: a missing asset price on a date d other than date0 is never
\* replaced by zero or skipped in the sum: the portfolio value on d is
\* missing, and the values of all other dates are what they are in the
\* frame without row d.  Stated of the frame as valuation leaves it; no
\* later step writes market_df.
C19_MissingPricePropagates ==
    pc = "valued" =>
        \A d \in DOMAIN market_df \ {SetMin(DOMAIN market_df)} :
            PriceMissing(d) =>
                /\ IsNaN(market_df[d]["Portfolio_KRW"])
                /\ LET rest == WithoutRow(market_df, d)
                   IN  \A e \in DOMAIN rest :
                           market_df[e]["Portfolio_KRW"] =
                               Accumulate(rest, tickers, e, Weight(investment, tickers),
                                          Len(tickers))

C19_Witness ==
    /\ pc = "valued"
    /\ tickers = <<"AAPL", "MSFT">>
    /\ DOMAIN market_df = Calendar
    /\ IsNaN(market_df[2]["AAPL"])
    /\ IsPositive(market_df[2]["MSFT"])
    /\ IsNaN(Portfolio[2])
    /\ Portfolio[1] = Num(investment)
    /\ IsPositive(Portfolio[3])
    /\ Portfolio[3] # Portfolio[1]

\* get_stock_data has been called (line 123, from line 194).
StockFetched == pc \notin {"run", "period_error"}

\* C20: a run with an empty symbol list, a non-positive horizon or a
\* non-positive number of paths is rejected before any data fetch,
\* valuation or simulation starts.
C20_RejectedBeforeFetch ==
    tickers = <<>> \/ forecast_days <= 0 \/ simulations <= 0 => ~StockFetched

\* ---------------------------------------------------------- C21 .. C24
\* The allocations of the first n tickers of the list, added up.
RECURSIVE AllocationSum(_, _, _)
AllocationSum(inv, ts, n) ==
    IF n = 0 THEN Zero ELSE Add(AllocationSum(inv, ts, n - 1), Weight(inv, ts))

\* The first row holds a positive price for every ticker and a positive rate.
BaseValid ==
    /\ IsPositive(ILocFirst(market_df)["USD_KRW"])
    /\ \A t \in TickerSet(tickers) : IsPositive(ILocFirst(market_df)[t])

\* C21: each requested symbol is allocated investment / count, and the
\* allocations accumulated into the portfolio value sum to the investment
\* for every ticker list that reaches valuation: the allocations add up to
\* the investment, and with a valid first row so does Portfolio_KRW there.
C21_AllocationsSumToInvestment ==
    pc = "valued" =>
        /\ Mul(Weight(investment, tickers), Num(Len(tickers))) = Num(investment)
        /\ AllocationSum(investment, tickers, Len(tickers)) = Num(investment)
        /\ BaseValid => ILocFirst(market_df)["Portfolio_KRW"] = Num(investment)

C21_Witness ==
    /\ pc = "valued"
    /\ tickers = <<"AAPL", "MSFT">>
    /\ BaseValid
    /\ ILocFirst(market_df)["AAPL"] # ILocFirst(market_df)["MSFT"]
    /\ Weight(investment, tickers) = Num(500000)
    /\ ILocFirst(market_df)["Portfolio_KRW"] = Num(1000000)

\* The positions a run passes through, each with the one it follows.
StageEdges ==
    {<<"run", "period_error">>, <<"run", "no_stock_data">>, <<"run", "merged">>,
     <<"merged", "valued">>, <<"valued", "returns">>,
     <<"returns", "simulated">>, <<"returns", "insufficient_data">>,
     <<"simulated", "summarized">>, <<"simulated", "crashed">>}

\* One step of a run: a stage follows the stage before it, works on that
\* stage's result and leaves the later stages' results unset; the valued
\* frame is not changed by the stages after it; without price data the run
\* stops at the warning.
StageStep ==
    /\ <<pc, pc'>> \in StageEdges
    /\ DOMAIN df_stock = {} =>
          pc' \in {"period_error", "no_stock_data"} /\ market_df' = None
    /\ pc' = "merged" =>
          /\ market_df = None
          /\ DOMAIN market_df' = DOMAIN df_stock
          /\ "Portfolio_KRW" \notin Columns(market_df')
    /\ pc' = "valued" =>
          /\ "USD_KRW" \in Columns(market_df)
          /\ "Portfolio_KRW" \in Columns(market_df')
          /\ price_paths' = Unset
    /\ pc \in {"valued", "returns", "simulated"} => market_df' = market_df
    /\ pc' = "returns" =>
          /\ "Portfolio_KRW" \in Columns(market_df)
          /\ DOMAIN daily_returns' \subseteq DOMAIN market_df
          /\ price_paths' = Unset
    /\ pc' = "simulated" =>
          /\ hist_returns' = Values(daily_returns)
          /\ price_paths' # Unset
          /\ final_values' = Unset
    /\ pc' \in {"summarized", "crashed"} =>
          /\ price_paths # Unset
          /\ final_values' = price_paths[forecast_days]

\* C22: within one run the stages execute in the order align, value,
\* extract returns, simulate, summarize, each starting only after the
\* previous one has completed; when no price data is available the run
\* reports it and none of the later stages executes.
C22_StagesInOrder == [][StageStep]_vars

C22_Witness ==
    /\ pc = "summarized"
    /\ DOMAIN df_stock # {}
    /\ "Portfolio_KRW" \in Columns(market_df)
    /\ DOMAIN daily_returns # {}
    /\ price_paths # Unset
    /\ final_values = price_paths[forecast_days]

\* C23: the pipeline keeps no state between runs: the aligned frame of a
\* run is a function of the data supplied to that run, and no value
\* computed in an earlier run is read by a later one.
C23_NoStateBetweenRuns ==
    /\ pc = "merged" =>
          market_df = get_merged_market_data(provider.stock, provider.exchange)
    /\ pc = "no_stock_data" => DOMAIN provider.stock = {}

\* C24: whenever run_monte_carlo is invoked, the start value passed to it
\* (the last row of the portfolio value series) is a defined, positive
\* number; a missing price on the last date never starts a simulation from
\* a missing value.
C24_StartValueDefined ==
    pc \in {"simulated", "summarized", "crashed"} => IsPositive(start_price)

\* The rows of the sheet that are active for an email on a day.
ActiveRows(s, email, day) ==
    {i \in 1 .. Len(s) : s[i].email = email /\ IsActive(s[i], day)}

\* C25: once unsubscribe_user(email) has returned "success", no row of the
\* sheet is active for that email and get_active_subscribers does not return
\* it, whatever subscriptions, expiries and cancellations came before.
C25_UnsubscribedIsInactive ==
    \A p \in DOMAIN calls :
        (calls[p].op = "unsubscribe" /\ calls[p].result = "success") =>
            /\ ActiveRows(sheet, calls[p].email, today) = {}
            /\ calls[p].email \notin get_active_subscribers(sheet, today)

OneActiveRowPerEmail ==
    \A email \in Emails : Cardinality(ActiveRows(sheet, email, today)) <= 1

\* The scan of a subscription for an email that has an active row: the call
\* returns without a write ("duplicate", or "error" when the sheet cannot be
\* opened).
DuplicateStep ==
    \A p \in DOMAIN calls :
        ( /\ calls[p].pc = "read"
          /\ calls[p].op = "save"
          /\ calls'[p] # calls[p]
          /\ ActiveRows(sheet, calls[p].email, today) # {} ) =>
            /\ calls'[p].result \in {"duplicate", "error"}
            /\ sheet' = sheet

\* C26: with one call at a time the sheet never holds two active rows of one
\* email, and a subscription for an email that has an active row returns
\* "duplicate" and leaves the sheet as it was.
C26_AtMostOneActiveRow == []OneActiveRowPerEmail /\ [][DuplicateStep]_vars

\* The row a finished registration of the email consists of.
CompleteRows(email) ==
    {[email |-> email, start_date |-> d, end_date |-> d + SubscriptionDays,
      register_time |-> d, canceled_at |-> Blank] : d \in Days}

\* C27: when the calls of two visitors with different emails have both
\* returned "success", the sheet holds a complete row for each of the two
\* emails, however their reads and cell writes were interleaved.
C27_BothRegistered ==
    ( /\ DOMAIN calls = Visitors
      /\ \A p \in Visitors : calls[p].op = "save" /\ calls[p].result = "success" ) =>
        \A p \in Visitors :
            \E i \in 1 .. Len(sheet) : sheet[i] \in CompleteRows(EmailOf[p])

\* The report job has come to its end: its last statement, or the exception
\* that stopped it.
ReportJobEnded == report_job # <<>> /\ report_job.pc \in {"done", "crashed"}

\* C28: a run of the report job that has ended has written
\* data/daily_report.md, also when no report was found or none was analysed.
C28_DailyReportWritten ==
    ReportJobEnded => DailyReportFile \in DOMAIN report_job.files

\* The models called by the current rotation are the first ones of the
\* list, in its order, and all but the last of them failed.
CalledInOrder ==
    /\ Len(report_job.tried) <= Len(AVAILABLE_MODELS)
    /\ \A k \in 1 .. Len(report_job.tried) :
          /\ report_job.tried[k].model = AVAILABLE_MODELS[k]
          /\ k < Len(report_job.tried) => ~report_job.tried[k].ok

\* What the rotation returned: the answer and name of the model that
\* succeeded, the failure pair exactly when every model failed.
ReturnedFirstSuccess ==
    LET tried == report_job.tried
        returned == <<report_job.insight, report_job.model_used>>
        all_failed == /\ Len(tried) = Len(AVAILABLE_MODELS)
                      /\ \A k \in 1 .. Len(tried) : ~tried[k].ok
    IN  /\ returned = AnalysisFailed <=> all_failed
        /\ ~all_failed => /\ tried # <<>>
                           /\ tried[Len(tried)].ok
                           /\ returned = <<ResponseText, tried[Len(tried)].model>>

\* The collected insights are those of analyses that succeeded, and
\* success_count counts them.
CollectedSucceeded ==
    /\ \A k \in 1 .. Len(report_job.collected_insights) :
          report_job.collected_insights[k].insight # AnalysisFailed[1]
    /\ report_job.success_count = Len(report_job.collected_insights)

\* C29: generate_with_rotation calls the models in list order, returns the
\* first success without calling a later model and the failure pair exactly
\* when all failed, after at most one call per model; the job collects and
\* counts an insight only for a report whose analysis succeeded.
C29_RotationAndCollection ==
    report_job # <<>> =>
        /\ report_job.pc \in {"rotate", "returned"} => CalledInOrder
        /\ report_job.pc = "returned" => ReturnedFirstSuccess
        /\ CollectedSucceeded

\* The reports of the daily job whose summary was collected.
Summarised == {daily_job.structured_summaries[k].title :
                  k \in 1 .. Len(daily_job.structured_summaries)}

\* C30: every entry of structured_summaries is a row inserted into
\* individual_reports and carries the Korean and the English summary; of the
\* reports gone through, exactly those with both answers and a completed
\* insert are collected, whatever happened to the others; daily_reports is
\* written and mail is sent only with at least one summary collected.
C30_SummariesAreInsertedRows ==
    daily_job # <<>> =>
        /\ \A k \in 1 .. Len(daily_job.structured_summaries) :
              LET entry == daily_job.structured_summaries[k]
              IN  /\ \E r \in 1 .. Len(daily_job.individual_reports) :
                        daily_job.individual_reports[r] = entry
                  /\ entry.summary_ko = AnswerText
                  /\ entry.summary_en = AnswerText
        /\ \A r \in 1 .. Len(daily_job.outcome) :
              daily_job.outcome[r] = "ok" <=> daily_job.reports[r] \in Summarised
        /\ (daily_job.daily_reports # <<>> \/ daily_job.sent # <<>>) =>
              daily_job.structured_summaries # <<>>

\* A finished run in which one report failed, another was collected, and
\* the synthesis was stored and mailed.
C30_Witness ==
    /\ daily_job # <<>>
    /\ daily_job.pc = "done"
    /\ \E r \in 1 .. Len(daily_job.outcome) : daily_job.outcome[r] = "error"
    /\ daily_job.structured_summaries # <<>>
    /\ daily_job.daily_reports # <<>>
    /\ daily_job.sent # <<>>

====
